---- MODULE Spec2Model ----
(***************************************************************************)
(* A model of the MSPA forum thread parsers: gbpub.py (Thread), snop.py    *)
(* and vbullet.py (Author, Post).                                          *)
(*                                                                         *)
(* Python values are modelled as follows.  A call either returns a value   *)
(* or raises: Ok(v) / Raise(e).  Text that the code inspects character by  *)
(* character (the datetime text) is a sequence of one-character strings.   *)
(* User names are strings with an explicit lower-casing table.  A BS4 Tag  *)
(* is a record; the position of a post element in the document is part of  *)
(* the record, so distinct elements are distinct values.                   *)
(***************************************************************************)
EXTENDS Integers, Sequences, FiniteSets, TLC

VARIABLES
    markup,     \* gbpub: the <li id="post_..."> elements of the fetched page
    thread,     \* gbpub: the fields of the constructed Thread (or NoThread)
    tresult,    \* gbpub: the last Thread call and what it returned / raised
    authors,    \* snop: the Authors of the parent thread, name -> Author
    aresult,    \* snop: the last Author / Post call and its outcome
    calls,      \* snop: the number of calls that changed an Author so far
    now,        \* the clock, datetime.now(), in minutes
    text,       \* the string handed to the timestamp splitting code
    sresult,    \* the outcome of splitting text
    page,       \* the content (blockquote) of each post element, as it is now
    variant     \* the module the caller imported: gbpub, snop or vbullet

vars ==
    <<markup, thread, tresult, authors, aresult, calls, now, text, sresult,
      page, variant>>

(***************************************************************************)
(* Bounds of the model.                                                    *)
(***************************************************************************)
MaxPosts == 3

MaxCalls == 2

MaxLen == 5

MaxBare == 2

MaxNodes == 3

(***************************************************************************)
(* Python calls: a value or an exception.                                  *)
(***************************************************************************)
Ok(v) == [err |-> "none", val |-> v]

\* What an exception reports: the format and the string of a strptime
\* failure the code reports, nothing for any other exception.
NoDetail == [format |-> <<>>, string |-> <<>>]

Raise(e) == [err |-> e, val |-> NoDetail]

IsOk(r) == r.err = "none"

(***************************************************************************)
(* Generic sequence helpers.                                               *)
(***************************************************************************)
Range(s) == {s[i] : i \in 1..Len(s)}

\* All sequences of length n over S.
SeqsOfLen(S, n) == [1..n -> S]

UpTo(S, n) == UNION {SeqsOfLen(S, k) : k \in 0..n}

\* The orders in which a set can be listed.
Orders(S) == {s \in SeqsOfLen(S, Cardinality(S)) : Range(s) = S}

\* s[i] with Python's list indexing: 0-based, negative indices count from
\* the end, anything else is an IndexError.
PyIndex(s, i) ==
    IF i >= 0 /\ i < Len(s) THEN Ok(s[i + 1])
    ELSE IF i < 0 /\ i >= -Len(s) THEN Ok(s[Len(s) + i + 1])
    ELSE Raise("IndexError")

(***************************************************************************)
(* User names.  str.lower() is a table over the names the model uses.      *)
(***************************************************************************)
NoUser == "<no username span>"

UserNames == {"Amy", "amy", "bob"}

Lower(s) ==
    CASE s = "Amy" -> "amy"
      [] s = "AMY" -> "amy"
      [] s = "Bob" -> "bob"
      [] s = "~NULL AUTHOR 0~" -> "~null author 0~"
      [] s = "~NULL AUTHOR 1~" -> "~null author 1~"
      [] s = "~NULL AUTHOR 2~" -> "~null author 2~"
      [] s = "~NULL AUTHOR 3~" -> "~null author 3~"
      [] s = "~NULL AUTHOR 4~" -> "~null author 4~"
      [] s = "~NULL AUTHOR 5~" -> "~null author 5~"
      [] OTHER -> s

\* "~NULL AUTHOR {0}~".format(post_number)
NullAuthor(n) ==
    CASE n = 0 -> "~NULL AUTHOR 0~"
      [] n = 1 -> "~NULL AUTHOR 1~"
      [] n = 2 -> "~NULL AUTHOR 2~"
      [] n = 3 -> "~NULL AUTHOR 3~"
      [] n = 4 -> "~NULL AUTHOR 4~"
      [] n = 5 -> "~NULL AUTHOR 5~"
      [] OTHER -> "~NULL AUTHOR ?~"

(***************************************************************************)
(* gbpub.py: Thread                                                        *)
(***************************************************************************)
\* The integers that can follow "post_" in an element's id attribute.
PostIds == 0..MaxPosts

\* A post element: its place in the document, its id and its username.
Element(p, i, u) == [pos |-> p, id |-> i, user |-> u]

\* What post.find("span", "username") can find in a post element: one of
\* the user names, or nothing.
MarkupUsers == UserNames \cup {NoUser}

DistinctIds(m) == \A i, j \in 1..Len(m) : i # j => m[i][1] # m[j][1]

\* The pages the fetch can return: any number of post elements up to the
\* bound, with distinct ids in any order; the pages of up to MaxBare
\* elements may have elements without a username span.
Markups ==
    {m \in UpTo(PostIds \X UserNames, MaxPosts) : DistinctIds(m)}
    \cup {m \in UpTo(PostIds \X MarkupUsers, MaxBare) : DistinctIds(m)}

MarkupElements(m) == [i \in 1..Len(m) |-> Element(i, m[i][1], m[i][2])]

NoThread == [built |-> FALSE]

\* An argument of the Thread methods is an integer or a post Tag
\* (type(post_number) is element.Tag).
IntArg(n) == [isTag |-> FALSE, n |-> n]

TagArg(e) == [isTag |-> TRUE, tag |-> e]

get_post_number(post) == post.id

validate_post_number(post_number) ==
    IF post_number.isTag THEN get_post_number(post_number.tag)
    ELSE post_number.n

\* get_post with the boundary test written n < 0: an argument of 0 then
\* reads posts[-1], the last post.
get_post_zero_is_last(posts, post_number) ==
    LET n == validate_post_number(post_number)
    IN IF n < 0 THEN PyIndex(posts, n) ELSE PyIndex(posts, n - 1)

get_post(posts, post_number) ==
    LET n == validate_post_number(post_number)
    IN IF n <= 0 THEN PyIndex(posts, n) ELSE PyIndex(posts, n - 1)

get_author(posts, post_number) ==
    LET n == validate_post_number(post_number)
        p == get_post(posts, IntArg(n))
    IN IF ~IsOk(p) THEN p
       ELSE IF p.val.user # NoUser THEN Ok(Lower(p.val.user))
       ELSE Ok(NullAuthor(n))

\* A dict as a function on its keys.
EmptyDict == [k \in {} |-> 0]

DictSet(d, k, v) == [x \in DOMAIN d \cup {k} |-> IF x = k THEN v ELSE d[x]]

DictValues(d) == {d[k] : k \in DOMAIN d}

\* The loop of Thread.__init__ over self._posts, from element i on: the
\* dictionary author -> post numbers, or the exception get_author raised.
RECURSIVE BuildAuthorList(_, _, _)
BuildAuthorList(posts, i, author_list) ==
    IF i > Len(posts) THEN Ok(author_list)
    ELSE LET post == posts[i]
             a == get_author(posts, TagArg(post))
         IN IF ~IsOk(a) THEN a
            ELSE LET name == Lower(a.val)
                     post_number == get_post_number(post)
                 IN BuildAuthorList(posts, i + 1,
                        IF name \in DOMAIN author_list
                        THEN DictSet(author_list, name,
                                     Append(author_list[name], post_number))
                        ELSE DictSet(author_list, name, <<post_number>>))

\* sorted(items, key=lambda x: x[1], reverse=True): a stable sort, the
\* items of equal key keep the order they came in.
RECURSIVE InsertDesc(_, _)
InsertDesc(sorted, item) ==
    IF sorted = <<>> THEN <<item>>
    ELSE IF Head(sorted)[2] >= item[2]
         THEN <<Head(sorted)>> \o InsertDesc(Tail(sorted), item)
         ELSE <<item>> \o sorted

RECURSIVE SortedDesc(_, _)
SortedDesc(items, n) ==
    IF n = 0 THEN <<>> ELSE InsertDesc(SortedDesc(items, n - 1), items[n])

\* self._author_ranks, given the order in which the dictionary yields its
\* items.
AuthorRanks(author_list, order) ==
    LET items == [i \in 1..Len(order) |->
                     <<order[i], Len(author_list[order[i]])>>]
        ranked == SortedDesc(items, Len(items))
    IN [i \in 1..Len(ranked) |-> ranked[i][1]]

\* Thread.__init__ after the fetch: the Thread, or the exception raised.
ThreadInit(posts, order_of) ==
    LET first == get_author(posts, IntArg(1))
        built == BuildAuthorList(posts, 1, EmptyDict)
    IN IF ~IsOk(first) THEN first
       ELSE IF ~IsOk(built) THEN built
       ELSE Ok([built |-> TRUE,
                posts |-> posts,
                author |-> first.val,
                total_posts |-> Len(posts),
                author_list |-> built.val,
                author_ranks |-> AuthorRanks(built.val, order_of)])

\* The optional author argument of the find methods.
None == "<None>"

find_post_numbers_by_author(t, author_arg) ==
    LET a == Lower(IF author_arg = None THEN t.author ELSE author_arg)
    IN IF a \in DOMAIN t.author_list THEN Ok(t.author_list[a]) ELSE Ok(<<>>)

\* map(lambda x: self.get_post(x), numbers): the first failing call raises.
find_posts_by_author(t, author_arg) ==
    LET a == Lower(IF author_arg = None THEN t.author ELSE author_arg)
        numbers == find_post_numbers_by_author(t, a).val
        got == [i \in 1..Len(numbers) |-> get_post(t.posts, IntArg(numbers[i]))]
    IN IF \E i \in 1..Len(got) : ~IsOk(got[i])
       THEN Raise("IndexError")
       ELSE Ok([i \in 1..Len(got) |-> got[i].val])

\* Which list object a find method hands to its caller: a list made for
\* the call, or the very list stored in self._author_list under a key.
NewList == <<>>

StoredList(key) == <<key>>

\* find_post_numbers_by_author returning self._author_list[author] itself,
\* without the slice.
post_list_stored(t, author_arg) ==
    LET a == Lower(IF author_arg = None THEN t.author ELSE author_arg)
    IN IF a \in DOMAIN t.author_list THEN StoredList(a) ELSE NewList

\* post_list = [] or post_list = self._author_list[author][:]: the slice
\* is a new list.
post_list(t, author_arg) ==
    LET a == Lower(IF author_arg = None THEN t.author ELSE author_arg)
    IN IF a \in DOMAIN t.author_list THEN NewList ELSE NewList

\* filter(lambda arg: not arg in args, self._author_ranks)
get_ranked_authors_list(t, args) ==
    Ok(SelectSeq(t.author_ranks, LAMBDA a : a \notin args))

(***************************************************************************)
(* Thread: actions.                                                        *)
(***************************************************************************)
NoResult == [op |-> "none"]

QueryNames == UserNames \cup {"Bob", "zed", None}

PostArgs == (0 - MaxPosts - 2)..(MaxPosts + 2)

\* Thread(thread_number): the page is fetched, the posts located, the
\* author dictionary and ranking built.  The dictionary yields its items
\* in an order the language does not fix.
ThreadConstruct ==
    /\ thread = NoThread
    /\ tresult = NoResult
    /\ LET posts == MarkupElements(markup)
           keys == LET b == BuildAuthorList(posts, 1, EmptyDict)
                   IN IF IsOk(b) THEN DOMAIN b.val ELSE {}
       IN \E order \in Orders(keys) :
             LET r == ThreadInit(posts, order)
             IN /\ thread' = IF IsOk(r) THEN r.val ELSE NoThread
                /\ tresult' = [op |-> "Thread", arg |-> order, out |-> r]
    /\ UNCHANGED <<markup, authors, aresult, calls, now, text, sresult,
                   page, variant>>

ThreadGetPost ==
    /\ thread.built
    /\ \E n \in PostArgs :
          tresult' = [op |-> "get_post", arg |-> n,
                      out |-> get_post(thread.posts, IntArg(n))]
    /\ UNCHANGED <<markup, thread, authors, aresult, calls, now, text, sresult,
                   page, variant>>

ThreadFindPostNumbersByAuthor ==
    /\ thread.built
    /\ \E a \in QueryNames :
          tresult' = [op |-> "find_post_numbers_by_author", arg |-> a,
                      out |-> find_post_numbers_by_author(thread, a),
                      object |-> post_list(thread, a)]
    /\ UNCHANGED <<markup, thread, authors, aresult, calls, now, text, sresult,
                   page, variant>>

ThreadFindPostsByAuthor ==
    /\ thread.built
    /\ \E a \in QueryNames :
          tresult' = [op |-> "find_posts_by_author", arg |-> a,
                      out |-> find_posts_by_author(thread, a),
                      object |-> NewList]
    /\ UNCHANGED <<markup, thread, authors, aresult, calls, now, text, sresult,
                   page, variant>>

ThreadGetRankedAuthorsList ==
    /\ thread.built
    /\ \E args \in SUBSET {"Amy", "amy", "bob"} :
          tresult' = [op |-> "get_ranked_authors_list", arg |-> args,
                      out |-> get_ranked_authors_list(thread, args)]
    /\ UNCHANGED <<markup, thread, authors, aresult, calls, now, text, sresult,
                   page, variant>>

\* The caller empties the list a find method returned (del result[:]).
\* A list of the thread's own would be emptied with it.
CallerClearsList ==
    /\ thread.built
    /\ tresult.op \in {"find_post_numbers_by_author", "find_posts_by_author"}
    /\ IsOk(tresult.out)
    /\ tresult.out.val # <<>>
    /\ tresult' = [op |-> "del result[:]", arg |-> tresult.arg,
                   out |-> Ok(<<>>), object |-> tresult.object]
    /\ thread' = IF tresult.object = NewList THEN thread
                 ELSE [thread EXCEPT !.author_list[tresult.object[1]] = <<>>]
    /\ UNCHANGED <<markup, authors, aresult, calls, now, text, sresult,
                   page, variant>>

ThreadNext ==
    \/ ThreadConstruct
    \/ ThreadGetPost
    \/ ThreadFindPostNumbersByAuthor
    \/ ThreadFindPostsByAuthor
    \/ ThreadGetRankedAuthorsList
    \/ CallerClearsList

ThreadInitState ==
    /\ markup \in Markups
    /\ thread = NoThread
    /\ tresult = NoResult
    /\ authors = EmptyDict
    /\ aresult = NoResult
    /\ calls = 0
    /\ now = 0
    /\ text = <<>>
    /\ sresult = NoResult
    /\ page = <<>>
    /\ variant = "gbpub"

SpecThread == ThreadInitState /\ [][ThreadNext]_vars

(***************************************************************************)
(* The content of a post: the children of its blockquote, in order.  A     *)
(* child is a run of text, an inline element around text, or one of the    *)
(* two blocks the forum renders: a spoiler (a wrapper div holding a header *)
(* div and the div of class "spoiler", whose first child is a div) and a   *)
(* bbcode container (a div of class "bbcode_container" holding a header    *)
(* div and a body div; "bbcode_headless" and "bbcode_empty" are what is    *)
(* left of it when its first div has been extracted once and twice).       *)
(* Markup text is a sequence of lexemes: whole tags and whole runs of      *)
(* text.                                                                   *)
(***************************************************************************)
TextNode(s) == [kind |-> "text", name |-> "", s |-> s]

ElementNode(name, s) == [kind |-> "element", name |-> name, s |-> s]

SpoilerNode(header, s) == [kind |-> "spoiler", name |-> header, s |-> s]

BBCodeNode(header, s) == [kind |-> "bbcode", name |-> header, s |-> s]

\* The placeholders of get_post_content.
MARK_b == "~~~~~b~~~~~"

MARK_b_end == "~~~~~/b~~~~~"

MARK_i == "~~~~~i~~~~~"

MARK_i_end == "~~~~~/i~~~~~"

StartTag(name) ==
    CASE name = "b" -> "<b>"
      [] name = "i" -> "<i>"
      [] name = "u" -> "<u>"
      [] name = "spoiler" -> "<div class=\"spoiler\">"
      [] name = "bbcode" -> "<div class=\"bbcode_container\">"
      [] name = "blockquote" -> "<blockquote class=\"restore\">"
      [] OTHER -> "<div>"

EndTag(name) ==
    CASE name = "b" -> "</b>"
      [] name = "i" -> "</i>"
      [] name = "u" -> "</u>"
      [] name = "blockquote" -> "</blockquote>"
      [] OTHER -> "</div>"

TagLexemes ==
    {StartTag(n) : n \in {"b", "i", "u", "spoiler", "bbcode", "blockquote",
                          "div"}}
    \cup {EndTag(n) : n \in {"b", "i", "u", "blockquote", "div"}}

\* str(node): the markup of one child.
StrNode(node) ==
    CASE node.kind = "text" -> <<node.s>>
      [] node.kind = "element" ->
            <<StartTag(node.name), node.s, EndTag(node.name)>>
      [] node.kind = "spoiler" ->
            <<StartTag("div"), StartTag("div"), node.name, EndTag("div"),
              StartTag("spoiler"), StartTag("div"), EndTag("div"), node.s,
              EndTag("spoiler"), EndTag("div")>>
      [] node.kind = "bbcode" ->
            <<StartTag("bbcode"), StartTag("div"), node.name, EndTag("div"),
              StartTag("div"), node.s, EndTag("div"), EndTag("bbcode")>>
      [] node.kind = "bbcode_headless" ->
            <<StartTag("bbcode"), StartTag("div"), node.s, EndTag("div"),
              EndTag("bbcode")>>
      [] node.kind = "bbcode_empty" ->
            <<StartTag("bbcode"), EndTag("bbcode")>>

RECURSIVE StrNodes(_)
StrNodes(nodes) ==
    IF nodes = <<>> THEN <<>>
    ELSE StrNode(Head(nodes)) \o StrNodes(Tail(nodes))

\* str(post_content): the markup of the blockquote, its own tags included.
StrContent(nodes) ==
    <<StartTag("blockquote")>> \o StrNodes(nodes) \o <<EndTag("blockquote")>>

\* text.replace(old, new) for an old that is one lexeme.
Replace(str, old, new) ==
    [i \in 1..Len(str) |-> IF str[i] = old THEN new ELSE str[i]]

\* BeautifulSoup(text).get_text(): the text between the tags.
get_text(str) == SelectSeq(str, LAMBDA l : l \notin TagLexemes)

\* The four replacements before parsing and the four after it.
HideBoldItalic(str) ==
    Replace(Replace(Replace(Replace(str, "<b>", MARK_b), "</b>", MARK_b_end),
                    "<i>", MARK_i), "</i>", MARK_i_end)

ShowBoldItalic(str) ==
    Replace(Replace(Replace(Replace(str, MARK_b, "<b>"), MARK_b_end, "</b>"),
                    MARK_i, "<i>"), MARK_i_end, "</i>")

\* Thread.get_post_content(post_number): contents gives the blockquote of
\* the post element at each position of the document.
get_post_content(posts, contents, post_number) ==
    LET n == validate_post_number(post_number)
        post == get_post(posts, IntArg(n))
    IN IF ~IsOk(post) THEN post
       ELSE Ok(ShowBoldItalic(get_text(HideBoldItalic(
                   StrContent(contents[post.val.pos])))))

\* The children a blockquote of the model can have.
ContentNodes ==
    { TextNode("x"), TextNode(MARK_b), ElementNode("b", "y"),
      ElementNode("i", "z"), ElementNode("u", "w"),
      SpoilerNode("Spoiler", "s"), BBCodeNode("Quote:", "q") }

Contents == UpTo(ContentNodes, MaxNodes)

ThreadGetPostContent ==
    /\ thread.built
    /\ \E n \in PostArgs :
          tresult' = [op |-> "get_post_content", arg |-> n,
                      out |-> get_post_content(thread.posts, page, IntArg(n))]
    /\ UNCHANGED <<markup, thread, authors, aresult, calls, now, text, sresult,
                   page, variant>>

ContentNext ==
    \/ ThreadConstruct
    \/ ThreadGetPostContent

\* A page of one post, with any content.
ContentInitState ==
    /\ markup = <<<<1, "Amy">>>>
    /\ thread = NoThread
    /\ tresult = NoResult
    /\ authors = EmptyDict
    /\ aresult = NoResult
    /\ calls = 0
    /\ now = 0
    /\ text = <<>>
    /\ sresult = NoResult
    /\ page \in [{1} -> Contents]
    /\ variant = "gbpub"

SpecContent == ContentInitState /\ [][ContentNext]_vars

(***************************************************************************)
(* Python strings as sequences of characters.                              *)
(***************************************************************************)
\* sub in s
Contains(s, sub) ==
    \E i \in 1..(Len(s) - Len(sub) + 1) :
        SubSeq(s, i, i + Len(sub) - 1) = sub

StartsWith(s, sub) ==
    Len(s) >= Len(sub) /\ SubSeq(s, 1, Len(sub)) = sub

Drop(s, n) == SubSeq(s, n + 1, Len(s))

\* s.split(sep): the pieces between the occurrences of sep, which are
\* found scanning from the left and do not overlap.  piece is the text
\* collected since the last separator.
RECURSIVE SplitFrom(_, _, _)
SplitFrom(s, sep, piece) ==
    IF s = <<>> THEN <<piece>>
    ELSE IF StartsWith(s, sep)
         THEN <<piece>> \o SplitFrom(Drop(s, Len(sep)), sep, <<>>)
         ELSE SplitFrom(Tail(s), sep, Append(piece, Head(s)))

Split(s, sep) == SplitFrom(s, sep, <<>>)

\* sep.join(pieces)
RECURSIVE Join(_, _)
Join(sep, pieces) ==
    IF pieces = <<>> THEN <<>>
    ELSE IF Len(pieces) = 1 THEN pieces[1]
    ELSE pieces[1] \o sep \o Join(sep, Tail(pieces))

\* str.lower() on the letters the model's texts use.
LowerChar(c) ==
    CASE c = "A" -> "a"
      [] c = "D" -> "d"
      [] c = "H" -> "h"
      [] c = "M" -> "m"
      [] c = "T" -> "t"
      [] c = "W" -> "w"
      [] c = "Y" -> "y"
      [] OTHER -> c

LowerStr(s) == [i \in 1..Len(s) |-> LowerChar(s[i])]

Digits == {"0", "1", "2", "3", "4", "5", "6", "7", "8", "9"}

DigitVal(c) ==
    CASE c = "0" -> 0 [] c = "1" -> 1 [] c = "2" -> 2 [] c = "3" -> 3
      [] c = "4" -> 4 [] c = "5" -> 5 [] c = "6" -> 6 [] c = "7" -> 7
      [] c = "8" -> 8 [] c = "9" -> 9

RECURSIVE DecimalVal(_)
DecimalVal(s) ==
    IF s = <<>> THEN 0
    ELSE 10 * DecimalVal(SubSeq(s, 1, Len(s) - 1)) + DigitVal(s[Len(s)])

\* int(s) for an unsigned decimal numeral; anything else is a ValueError.
PyInt(s) ==
    IF s # <<>> /\ \A i \in 1..Len(s) : s[i] \in Digits
    THEN Ok(DecimalVal(s))
    ELSE Raise("ValueError")

(***************************************************************************)
(* datetime: a moment is a number of minutes since 1900-01-01 00:00, the   *)
(* date strptime gives when the format names no year or month.  A date is  *)
(* a number of days since then, a time a minute of the day.                *)
(***************************************************************************)
MinutesPerHour == 60

MinutesPerDay == 1440

MinutesPerWeek == 10080

DateOf(moment) == moment \div MinutesPerDay

TimeOf(moment) == moment % MinutesPerDay

\* An attribute that may be None.
NoValue == <<>>

Some(v) == <<v>>

\* timedelta(**{keyword: n}) in minutes.  timedelta takes days, seconds,
\* microseconds, milliseconds, minutes, hours and weeks; any other keyword
\* is a TypeError.
timedelta(keyword, n) ==
    CASE keyword = "minutes" -> Ok(n)
      [] keyword = "hours" -> Ok(n * MinutesPerHour)
      [] keyword = "days" -> Ok(n * MinutesPerDay)
      [] keyword = "weeks" -> Ok(n * MinutesPerWeek)
      [] OTHER -> Raise("TypeError")

\* A strptime format is a sequence of items: a directive (%d day of the
\* month, %H hour, %M minute) or a literal character.  A directive tries
\* its two-digit reading before its one-digit reading, as the regular
\* expression strptime compiles does; a blank in the format stands for one
\* or more blanks; the whole text must be consumed.
NoMatch == [matched |-> FALSE]

TwoDigits(t, lo, hi) ==
    /\ Len(t) >= 2
    /\ t[1] \in Digits
    /\ t[2] \in Digits
    /\ 10 * DigitVal(t[1]) + DigitVal(t[2]) \in lo..hi

OneDigit(t, lo, hi) ==
    /\ Len(t) >= 1
    /\ t[1] \in Digits
    /\ DigitVal(t[1]) \in lo..hi

RECURSIVE SkipBlanks(_)
SkipBlanks(t) == IF t # <<>> /\ Head(t) = " " THEN SkipBlanks(Tail(t)) ELSE t

RECURSIVE StrptimeMatch(_, _, _)
StrptimeMatch(t, fmt, found) ==
    IF fmt = <<>> THEN IF t = <<>> THEN found ELSE NoMatch
    ELSE LET item == Head(fmt)
             field == CASE item = "%d" -> "d" [] item = "%H" -> "H"
                        [] item = "%M" -> "M" [] OTHER -> "none"
             lo == IF item = "%d" THEN 1 ELSE 0
             hi == CASE item = "%d" -> 31 [] item = "%H" -> 23
                     [] item = "%M" -> 59 [] OTHER -> 0
             two == IF TwoDigits(t, lo, hi)
                    THEN StrptimeMatch(Drop(t, 2), Tail(fmt),
                            [found EXCEPT ![field] =
                                10 * DigitVal(t[1]) + DigitVal(t[2])])
                    ELSE NoMatch
             one == IF OneDigit(t, lo, 9)
                    THEN StrptimeMatch(Drop(t, 1), Tail(fmt),
                            [found EXCEPT ![field] = DigitVal(t[1])])
                    ELSE NoMatch
         IN IF field # "none" THEN (IF two.matched THEN two ELSE one)
            ELSE IF item = " "
                 THEN (IF t # <<>> /\ Head(t) = " "
                       THEN StrptimeMatch(SkipBlanks(t), Tail(fmt), found)
                       ELSE NoMatch)
            ELSE IF t # <<>> /\ Head(t) = item
                 THEN StrptimeMatch(Tail(t), Tail(fmt), found)
                 ELSE NoMatch

\* datetime.strptime(t, fmt): the moment parsed (1900-01-01 00:00 where
\* the format leaves a field out), or a ValueError.
strptime(t, fmt) ==
    LET m == StrptimeMatch(t, fmt, [matched |-> TRUE, d |-> 1, H |-> 0, M |-> 0])
    IN IF m.matched
       THEN Ok((m.d - 1) * MinutesPerDay + m.H * MinutesPerHour + m.M)
       ELSE Raise("ValueError")

(***************************************************************************)
(* The words the timestamp code looks for, and the datetime texts of the   *)
(* posts the model's page holds.                                           *)
(***************************************************************************)
WORD_ago == <<"a", "g", "o">>

WORD_minute == <<"m", "i", "n", "u", "t", "e">>

WORD_hour == <<"h", "o", "u", "r">>

WORD_day == <<"d", "a", "y">>

WORD_week == <<"w", "e", "e", "k">>

WORD_year == <<"y", "e", "a", "r">>

WORD_today == <<"t", "o", "d", "a", "y">>

WORD_yesterday == <<"y", "e", "s", "t", "e", "r", "d", "a", "y">>

\* "5 minutes ago"
Text_minutes == <<"5", " ", "m", "i", "n", "u", "t", "e", "s", " ", "a", "g", "o">>

\* "2 Hours ago"
Text_hours == <<"2", " ", "H", "o", "u", "r", "s", " ", "a", "g", "o">>

\* "1 day ago"
Text_days == <<"1", " ", "d", "a", "y", " ", "a", "g", "o">>

\* "3 weeks ago"
Text_weeks == <<"3", " ", "w", "e", "e", "k", "s", " ", "a", "g", "o">>

\* "1 year ago"
Text_years == <<"1", " ", "y", "e", "a", "r", " ", "a", "g", "o">>

\* "4 moons ago"
Text_moons == <<"4", " ", "m", "o", "o", "n", "s", " ", "a", "g", "o">>

\* "today, 10:15"
Text_today == <<"t", "o", "d", "a", "y", ",", " ", "1", "0", ":", "1", "5">>

\* "yesterday, 9:05"
Text_yesterday == <<"y", "e", "s", "t", "e", "r", "d", "a", "y", ",", " ", "9", ":", "0", "5">>

\* "02, 10:15"
Text_plain == <<"0", "2", ",", " ", "1", "0", ":", "1", "5">>

\* "long ago"
Text_long == <<"l", "o", "n", "g", " ", "a", "g", "o">>

\* "a, 02, 10:15"
Text_embedded == <<"a", ",", " ", "0", "2", ",", " ", "1", "0", ":", "1", "5">>

(***************************************************************************)
(* snop.py: the timestamp of a Post.                                       *)
(***************************************************************************)
\* The split anchored on the first ", ": the first piece is the date, the
\* rest joined again is the time.
SnopSplitAtFirst(datetime_string) ==
    LET datetime_list == Split(datetime_string, <<",", " ">>)
    IN [date_string |-> datetime_list[1],
        time_string |-> Join(<<",", " ">>, Tail(datetime_list))]

\* The split of the absolute branch: split on ", ", join all pieces but
\* the last again, leave the last alone.
SnopSplit(datetime_string) ==
    LET datetime_list == Split(datetime_string, <<",", " ">>)
    IN [date_string |-> Join(<<",", " ">>,
                             SubSeq(datetime_list, 1, Len(datetime_list) - 1)),
        time_string |-> datetime_list[Len(datetime_list)]]

\* s[::-1]
Reverse(s) == [i \in 1..Len(s) |-> s[Len(s) + 1 - i]]

\* s.split(sep, maxsplit=1): cut at the first sep only.
RECURSIVE SplitOnceFrom(_, _, _)
SplitOnceFrom(s, sep, piece) ==
    IF s = <<>> THEN <<piece>>
    ELSE IF StartsWith(s, sep) THEN <<piece, Drop(s, Len(sep))>>
    ELSE SplitOnceFrom(Tail(s), sep, Append(piece, Head(s)))

\* What "lambda x: x[::-1]" evaluates to: a function object, no string.
Lambda == <<"<function <lambda>>">>

\* The Python versions the module may be run with.
Pythons == {2, 3}

\* The split of vbullet's absolute branch.  Python 2's str.split takes no
\* keyword argument; the comprehension makes a list of lambdas, one for
\* each piece, and does not call them.
VbulletSplit(datetime_string, python) ==
    LET datetime_list == SplitOnceFrom(Reverse(datetime_string),
                                       <<" ", ",">>, <<>>)
        lambdas == [i \in 1..Len(datetime_list) |-> Lambda]
    IN IF python = 2 THEN Raise("TypeError")
       ELSE IF Len(lambdas) < 2 THEN Raise("IndexError")
       ELSE Ok([date_string |-> lambdas[1], time_string |-> lambdas[2]])

\* The keyword handed to timedelta for a unit word: the first of the five
\* tests that finds its word in unit_type; NoValue when none does.
UnitKeyword(unit_type) ==
    IF Contains(unit_type, WORD_minute) THEN Some("minutes")
    ELSE IF Contains(unit_type, WORD_hour) THEN Some("hours")
    ELSE IF Contains(unit_type, WORD_day) THEN Some("days")
    ELSE IF Contains(unit_type, WORD_week) THEN Some("weeks")
    ELSE IF Contains(unit_type, WORD_year) THEN Some("years")
    ELSE NoValue

\* The "friendly" branch: [date, time] of now minus the units, or the
\* exception raised on the way.
ResolveRelative(datetime_string, clock) ==
    LET date_data == Split(datetime_string, <<" ">>)
        unit_type == LowerStr(date_data[2])
        units == PyInt(date_data[1])
        keyword == UnitKeyword(unit_type)
        delta == IF keyword = NoValue THEN Ok(0)
                 ELSE timedelta(keyword[1], units.val)
        post_datetime == clock - delta.val
    IN IF Len(date_data) < 2 THEN Raise("IndexError")
       ELSE IF ~IsOk(units) THEN units
       ELSE IF ~IsOk(delta) THEN delta
       ELSE Ok([date |-> Some(DateOf(post_datetime)),
                time |-> Some(TimeOf(post_datetime))])

\* raise ValueError("Date format '{0}' does not match string '{1}'.")
RaiseFormat(format, string) ==
    [err |-> "ValueError", val |-> [format |-> format, string |-> string]]

IsFormatError(r) == r.err = "ValueError" /\ r.val # NoDetail

\* self._date of the absolute branch.
ResolveDate(date_string, date_format, clock) ==
    IF Contains(date_string, WORD_today) THEN Ok(Some(DateOf(clock)))
    ELSE IF Contains(date_string, WORD_yesterday)
         THEN Ok(Some(DateOf(clock) - 1))
    ELSE IF date_format # NoValue
         THEN LET parsed == strptime(date_string, date_format[1])
              IN IF IsOk(parsed) THEN Ok(Some(DateOf(parsed.val)))
                 ELSE RaiseFormat(date_format[1], date_string)
    ELSE Ok(NoValue)

\* self._time parsed under the date format.
ResolveTimeWithDateFormat(time_string, time_format, date_format) ==
    IF time_format # NoValue
    THEN LET parsed == strptime(time_string,
                                IF date_format # NoValue THEN date_format[1]
                                ELSE time_format[1])
         IN IF IsOk(parsed) THEN Ok(Some(TimeOf(parsed.val)))
            ELSE RaiseFormat(time_format[1], time_string)
    ELSE Ok(NoValue)

\* self._time left None when the format does not match.
ResolveTimeSilent(time_string, time_format) ==
    IF time_format # NoValue
    THEN LET parsed == strptime(time_string, time_format[1])
         IN IF IsOk(parsed) THEN Ok(Some(TimeOf(parsed.val)))
            ELSE Ok(NoValue)
    ELSE Ok(NoValue)

\* self._time of the absolute branch.
ResolveTime(time_string, time_format) ==
    IF time_format # NoValue
    THEN LET parsed == strptime(time_string, time_format[1])
         IN IF IsOk(parsed) THEN Ok(Some(TimeOf(parsed.val)))
            ELSE RaiseFormat(time_format[1], time_string)
    ELSE Ok(NoValue)

\* The absolute branch with the time parsed under the date format.
ResolveAbsoluteSwapped(datetime_string, date_format, time_format, clock) ==
    LET parts == SnopSplit(datetime_string)
        d == ResolveDate(parts.date_string, date_format, clock)
        t == ResolveTimeWithDateFormat(parts.time_string, time_format,
                                       date_format)
    IN IF ~IsOk(d) THEN d
       ELSE IF ~IsOk(t) THEN t
       ELSE Ok([date |-> d.val, time |-> t.val])

ResolveAbsolute(datetime_string, date_format, time_format, clock) ==
    LET parts == SnopSplit(datetime_string)
        d == ResolveDate(parts.date_string, date_format, clock)
        t == ResolveTime(parts.time_string, time_format)
    IN IF ~IsOk(d) THEN d
       ELSE IF ~IsOk(t) THEN t
       ELSE Ok([date |-> d.val, time |-> t.val])

\* Lines 254-310 of Post.__init__: the date and time of the post.
ResolveTimestamp(datetime_string, date_format, time_format, clock) ==
    IF Contains(datetime_string, WORD_ago)
    THEN ResolveRelative(datetime_string, clock)
    ELSE ResolveAbsolute(datetime_string, date_format, time_format, clock)

(***************************************************************************)
(* snop.py: Author, a dict from post number to Post.                       *)
(***************************************************************************)
\* A snop Post object: the element it was made from, its number, date and
\* time, its own copy of the content (_o_content_tag) and the markup of
\* that copy's children (_html).
PostObject(tag, number, date, time, o_content_tag, html) ==
    [tag |-> tag, number |-> number, date |-> date, time |-> time,
     live |-> FALSE, o_content_tag |-> o_content_tag, html |-> html]

\* A vbullet Post object: its _post_tag is the blockquote of the element
\* itself, in the document.
VbulletPostObject(tag, number, date, time) ==
    [tag |-> tag, number |-> number, date |-> date, time |-> time,
     live |-> TRUE, o_content_tag |-> <<>>, html |-> <<>>]

\* Post.html and Post.tag, given the contents of the document's elements:
\* snop returns what it stored, vbullet reads the element.
Post_html(post, contents) ==
    IF post.live THEN StrContent(contents[post.tag]) ELSE post.html

Post_tag(post, contents) ==
    IF post.live THEN contents[post.tag] ELSE post.o_content_tag

\* The operand of "in": a post number or a Post.
NumberItem(n) == [isPost |-> FALSE, n |-> n]

PostItem(p) == [isPost |-> TRUE, post |-> p]

\* Author.add_post: self[post.number] = post
add_post(self, post) == DictSet(self, post.number, post)

\* Post.__eq__(self, other): self._post_tag == other._post_tag.  An other
\* that is no Post has no _post_tag attribute.
PostEq(self, other) ==
    IF other.isPost THEN Ok(self.tag = other.post.tag)
    ELSE Raise("AttributeError")

\* item in list: the elements are compared with item one after the other
\* until one is equal.  A number and a Post are compared by Post.__eq__,
\* whichever side the Post is on.
ItemEq(item, element) ==
    IF element.isPost THEN PostEq(element.post, item)
    ELSE IF item.isPost THEN PostEq(item.post, element)
    ELSE Ok(item.n = element.n)

RECURSIVE InList(_, _)
InList(item, list) ==
    IF list = <<>> THEN Ok(FALSE)
    ELSE LET eq == ItemEq(item, Head(list))
         IN IF ~IsOk(eq) THEN eq
            ELSE IF eq.val THEN Ok(TRUE)
            ELSE InList(item, Tail(list))

\* self.keys() and self.values(), in some order the dict lists them.
KeysIn(self, order) == [i \in 1..Len(order) |-> NumberItem(order[i])]

ValuesIn(self, order) == [i \in 1..Len(order) |-> PostItem(self[order[i]])]

\* Author.__contains__: item in self.keys() or item in self.values()
contains(self, item, order) ==
    LET in_keys == InList(item, KeysIn(self, order))
    IN IF ~IsOk(in_keys) THEN in_keys
       ELSE IF in_keys.val THEN Ok(TRUE)
       ELSE InList(item, ValuesIn(self, order))

\* Author.is_op: 1 in self
is_op(self, order) == contains(self, NumberItem(1), order)

\* Post.__lt__ turned round: the later post sorts first.
Post__lt__reversed(self, other) == self.number > other.number

\* Post.__lt__(self, other): self._post_number < other._post_number
Post__lt__(self, other) == self.number < other.number

\* x < y as sorted() asks it: of two numbers, or of two Posts.
ItemLt(x, y) ==
    IF x.isPost THEN Post__lt__(x.post, y.post) ELSE x.n < y.n

\* One element put into a sorted list: before the first element it is less
\* than, after its equals.
RECURSIVE InsertSorted(_, _)
InsertSorted(x, list) ==
    IF list = <<>> THEN <<x>>
    ELSE IF ItemLt(x, Head(list)) THEN <<x>> \o list
    ELSE <<Head(list)>> \o InsertSorted(x, Tail(list))

\* sorted(list): a new list, ordered by <, equal elements in the order
\* they came.
RECURSIVE sorted(_)
sorted(list) ==
    IF list = <<>> THEN <<>>
    ELSE InsertSorted(list[Len(list)], sorted(SubSeq(list, 1, Len(list) - 1)))

\* Author.posts: sorted(self.values())
Author_posts(self, order) ==
    LET list == sorted(ValuesIn(self, order))
    IN [i \in 1..Len(list) |-> list[i].post]

\* Author.post_numbers: sorted(self.keys())
Author_post_numbers(self, order) ==
    LET list == sorted(KeysIn(self, order))
    IN [i \in 1..Len(list) |-> list[i].n]

(***************************************************************************)
(* snop.py: Post.__init__                                                  *)
(***************************************************************************)
\* A post element of the page: which element it is, the text of its
\* username span (NoUser without one), the text after "post_" in its id
\* (a number, or not), and the text of its datetime div (NoText without).
NoText == <<"<no datetime div>">>

PostTag(tag, user, numeric, id, datetime) ==
    [tag |-> tag, user |-> user, numeric |-> numeric, id |-> id,
     datetime |-> datetime]

PageTags ==
    { PostTag(1, "Amy", TRUE, 1, Text_minutes),
      PostTag(2, "amy", TRUE, 1, Text_today),
      PostTag(3, "Amy", TRUE, 2, Text_hours),
      PostTag(4, "bob", TRUE, 2, Text_days),
      PostTag(5, "bob", TRUE, 3, Text_weeks),
      PostTag(6, "Amy", TRUE, 3, Text_years),
      PostTag(7, "Amy", TRUE, 4, Text_moons),
      PostTag(8, "bob", TRUE, 4, Text_yesterday),
      PostTag(9, "Amy", TRUE, 2, Text_plain),
      PostTag(10, "bob", TRUE, 1, Text_embedded),
      PostTag(11, "Amy", FALSE, 0, Text_today),
      PostTag(12, "bob", TRUE, 5, NoText),
      PostTag(13, NoUser, TRUE, 5, Text_today),
      PostTag(14, "bob", TRUE, 3, Text_long),
      PostTag(15, "Amy", TRUE, 1, Text_minutes),
      PostTag(16, "bob", TRUE, 2, Text_minutes) }

\* The content of each post element when the page is parsed: element 15
\* holds a spoiler, element 16 a quote, the others text with a bold run.
InitialPage ==
    [t \in {post_tag.tag : post_tag \in PageTags} |->
        CASE t = 15 -> <<TextNode("x"), SpoilerNode("Spoiler", "s")>>
          [] t = 16 -> <<BBCodeNode("Quote:", "q"), TextNode("x")>>
          [] OTHER -> <<ElementNode("b", "y"), TextNode("x")>>]

DateFormats == {NoValue, Some(<<"%d">>), Some(<<"a", ",", " ", "%d">>)}

TimeFormats == {NoValue, Some(<<"%H", ":", "%M">>), Some(<<"%M">>)}

\* The clock readings of the model: mid-morning, and just after midnight.
Clocks == {50 * MinutesPerDay + 615, 60 * MinutesPerDay + 3}

\* The parent thread's get_author(name): the Author of that name, made on
\* first use.
LedgerGet(ledger, name) ==
    IF Lower(name) \in DOMAIN ledger THEN ledger
    ELSE DictSet(ledger, Lower(name), EmptyDict)

IsSpoiler(node) == node.kind = "spoiler"

IsBBCode(node) == node.kind \in {"bbcode", "bbcode_headless", "bbcode_empty"}

\* bbelem.div.extract(): the first div of the container leaves the tree.
ExtractDiv(node) ==
    [node EXCEPT !.kind = IF @ = "bbcode" THEN "bbcode_headless"
                          ELSE "bbcode_empty"]

\* Lines 223-249 of Post.__init__, on the content element in the document.
\* A Tag has no new_tag method: the attribute is looked up as a child tag
\* of that name, there is none, and None is called.  The first spoiler
\* stops the loop before anything is changed; the first bbcode container
\* loses its first div and then stops the loop.
RewriteBlocks(content) ==
    LET spoilers == {i \in 1..Len(content) : IsSpoiler(content[i])}
        bbelems == {i \in 1..Len(content) : IsBBCode(content[i])}
        first == CHOOSE i \in bbelems : \A j \in bbelems : i <= j
    IN IF spoilers # {}
       THEN [content |-> content, out |-> Raise("TypeError")]
       ELSE IF bbelems = {}
       THEN [content |-> content, out |-> Ok(content)]
       ELSE IF content[first].kind = "bbcode_empty"
       THEN [content |-> content, out |-> Raise("AttributeError")]
       ELSE [content |-> [content EXCEPT ![first] = ExtractDiv(@)],
             out |-> Raise("TypeError")]

\* A date or time attribute that no statement has assigned yet.
Unassigned == <<-1>>

\* Post.__init__ with "self._author.add_post(self)" moved up to where the
\* author is found: the Post is registered before its content and its
\* timestamp are worked out.
PostInitRegistersFirst(ledger, content, post_tag, date_format, time_format, clock) ==
    LET found == LedgerGet(ledger, post_tag.user)
        name == Lower(post_tag.user)
        early == PostObject(post_tag.tag, post_tag.id, Unassigned, Unassigned,
                            content, StrNodes(content))
        registered == DictSet(found, name, add_post(found[name], early))
        rewritten == RewriteBlocks(content)
        stamp == ResolveTimestamp(post_tag.datetime, date_format,
                                  time_format, clock)
        post == PostObject(post_tag.tag, post_tag.id, stamp.val.date,
                           stamp.val.time, content, StrNodes(content))
    IN IF post_tag.user = NoUser
       THEN [ledger |-> ledger, content |-> content,
             out |-> Raise("AttributeError")]
       ELSE IF ~post_tag.numeric
       THEN [ledger |-> found, content |-> content,
             out |-> Raise("ValueError")]
       ELSE IF ~IsOk(rewritten.out)
       THEN [ledger |-> registered, content |-> rewritten.content,
             out |-> rewritten.out]
       ELSE IF post_tag.datetime = NoText
       THEN [ledger |-> registered, content |-> content,
             out |-> Raise("AttributeError")]
       ELSE IF ~IsOk(stamp)
       THEN [ledger |-> registered, content |-> content, out |-> stamp]
       ELSE [ledger |-> DictSet(found, name, add_post(found[name], post)),
             content |-> content, out |-> Ok(post)]

\* Post(post_tag, parent_thread, date_format, time_format), content being
\* the post element's blockquote as the document has it: the Authors of
\* the parent thread and the blockquote afterwards, and the Post or the
\* exception raised.
PostInit(ledger, content, post_tag, date_format, time_format, clock) ==
    LET found == LedgerGet(ledger, post_tag.user)
        name == Lower(post_tag.user)
        rewritten == RewriteBlocks(content)
        stamp == ResolveTimestamp(post_tag.datetime, date_format,
                                  time_format, clock)
        post == PostObject(post_tag.tag, post_tag.id, stamp.val.date,
                           stamp.val.time, content, StrNodes(content))
    IN IF post_tag.user = NoUser
       THEN [ledger |-> ledger, content |-> content,
             out |-> Raise("AttributeError")]
       ELSE IF ~post_tag.numeric
       THEN [ledger |-> found, content |-> content,
             out |-> Raise("ValueError")]
       ELSE IF ~IsOk(rewritten.out)
       THEN [ledger |-> found, content |-> rewritten.content,
             out |-> rewritten.out]
       ELSE IF post_tag.datetime = NoText
       THEN [ledger |-> found, content |-> content,
             out |-> Raise("AttributeError")]
       ELSE IF ~IsOk(stamp)
       THEN [ledger |-> found, content |-> content, out |-> stamp]
       ELSE [ledger |-> DictSet(found, name, add_post(found[name], post)),
             content |-> content, out |-> Ok(post)]

\* vbullet.py's Post(post_tag, parent_thread, date_format, time_format).
\* The absolute branch ends at its split, or at the next statement,
\* '"today" in date_string', whose right operand is a function.
VbulletPostInit(ledger, post_tag, date_format, time_format, clock, python) ==
    LET found == LedgerGet(ledger, post_tag.user)
        name == Lower(post_tag.user)
        split == VbulletSplit(post_tag.datetime, python)
        stamp == IF Contains(post_tag.datetime, WORD_ago)
                 THEN ResolveRelative(post_tag.datetime, clock)
                 ELSE IF ~IsOk(split) THEN split
                 ELSE Raise("TypeError")
        post == VbulletPostObject(post_tag.tag, post_tag.id, stamp.val.date,
                                  stamp.val.time)
    IN IF post_tag.user = NoUser
       THEN [ledger |-> ledger, out |-> Raise("AttributeError")]
       ELSE IF ~post_tag.numeric
       THEN [ledger |-> found, out |-> Raise("ValueError")]
       ELSE IF post_tag.datetime = NoText
       THEN [ledger |-> found, out |-> Raise("AttributeError")]
       ELSE IF ~IsOk(stamp)
       THEN [ledger |-> found, out |-> stamp]
       ELSE [ledger |-> DictSet(found, name, add_post(found[name], post)),
             out |-> Ok(post)]

\* The spoiler step of get_clean_content on its copy of the content: the
\* whole block goes (spoiler.parent.decompose()), or the block's divs go
\* and its inner text stays where the block was.
CleanSpoilers(content, spoilers) ==
    IF spoilers THEN SelectSeq(content, LAMBDA node : ~IsSpoiler(node))
    ELSE [i \in 1..Len(content) |->
             IF IsSpoiler(content[i]) THEN TextNode(content[i].s)
             ELSE content[i]]

\* snop's Post.get_clean_content(spoilers=...): the Post afterwards and
\* what is returned.  The method works on a deep copy of _o_content_tag
\* and has no return statement.
get_clean_content(post, spoilers) ==
    LET content == CleanSpoilers(post.o_content_tag, spoilers)
    IN [post |-> post, out |-> Ok(NoValue)]

\* vbullet's Post.get_clean_content: every branch is "pass".
vbullet_get_clean_content(post, spoilers) ==
    [post |-> post, out |-> Ok(NoValue)]

(***************************************************************************)
(* snop: actions.                                                          *)
(***************************************************************************)
\* The Posts some Author of the thread holds.
HeldPosts == UNION {DictValues(authors[a]) : a \in DOMAIN authors}

PostConstruct ==
    /\ variant = "snop"
    /\ calls < MaxCalls
    /\ \E post_tag \in PageTags, df \in DateFormats, tf \in TimeFormats :
          \E r \in {PostInit(authors, page[post_tag.tag], post_tag, df, tf,
                              now)} :
             /\ authors' = r.ledger
             /\ page' = [page EXCEPT ![post_tag.tag] = r.content]
             /\ aresult' = [op |-> "Post", tag |-> post_tag,
                            content |-> page[post_tag.tag],
                            date_format |-> df, time_format |-> tf,
                            out |-> r.out]
    /\ calls' = calls + 1
    /\ UNCHANGED <<markup, thread, tresult, now, text, sresult, variant>>

\* vbullet's Post(...), run by either Python.  No path through the
\* constructor reads a format before it returns or raises, so the call is
\* made with the default formats only.
VbulletPostConstruct ==
    /\ variant = "vbullet"
    /\ calls < MaxCalls
    /\ \E post_tag \in PageTags, python \in Pythons :
          \E r \in {VbulletPostInit(authors, post_tag, NoValue, NoValue, now,
                                     python)} :
             /\ authors' = r.ledger
             /\ aresult' = [op |-> "vbullet.Post", tag |-> post_tag,
                            python |-> python, out |-> r.out]
    /\ calls' = calls + 1
    /\ UNCHANGED <<markup, thread, tresult, now, text, sresult,
                   page, variant>>

\* post.get_clean_content(spoilers=True / False) on a Post of the thread.
PostGetCleanContent ==
    /\ \E a \in DOMAIN authors :
          \E n \in DOMAIN authors[a], spoilers \in BOOLEAN :
             \E r \in {IF authors[a][n].live
                        THEN vbullet_get_clean_content(authors[a][n], spoilers)
                        ELSE get_clean_content(authors[a][n], spoilers)} :
                /\ authors' = [authors EXCEPT ![a][n] = r.post]
                /\ aresult' = [op |-> "get_clean_content", author |-> a,
                               number |-> n, spoilers |-> spoilers,
                               out |-> r.out]
    /\ UNCHANGED <<markup, thread, tresult, calls, now, text, sresult,
                   page, variant>>

\* What an edit of the document can leave in a blockquote.
EditedContents == {<<TextNode("x"), SpoilerNode("Spoiler", "s")>>}

\* The holder of the document edits the blockquote of an element that a
\* Post was made from.
SourceMutate ==
    /\ calls < MaxCalls
    /\ \E post \in HeldPosts, content \in EditedContents :
          /\ page' = [page EXCEPT ![post.tag] = content]
          /\ aresult' = [op |-> "edit", tag |-> post.tag]
    /\ calls' = calls + 1
    /\ UNCHANGED <<markup, thread, tresult, authors, now, text, sresult,
                   variant>>

\* author.add_post(post) called directly, with a Post that exists.
AuthorAddPost ==
    /\ calls < MaxCalls
    /\ \E a \in DOMAIN authors, post \in HeldPosts :
          /\ authors' = [authors EXCEPT ![a] = add_post(authors[a], post)]
          /\ aresult' = [op |-> "add_post", author |-> a, post |-> post,
                         out |-> Ok("None")]
    /\ calls' = calls + 1
    /\ UNCHANGED <<markup, thread, tresult, now, text, sresult,
                   page, variant>>

\* author.is_op; the dict lists its keys in an order of its own.
AuthorIsOp ==
    /\ \E a \in DOMAIN authors :
          \E order \in Orders(DOMAIN authors[a]) :
             aresult' = [op |-> "is_op", author |-> a,
                         out |-> is_op(authors[a], order)]
    /\ UNCHANGED <<markup, thread, tresult, authors, calls, now, text, sresult,
                   page, variant>>

\* The operands the model tries "in" with: post numbers, and the Posts
\* that exist.
QueryItems ==
    {NumberItem(n) : n \in 1..3} \cup {PostItem(p) : p \in HeldPosts}

\* item in author; the dict lists its keys in an order of its own.
AuthorContains ==
    /\ \E a \in DOMAIN authors, item \in QueryItems :
          \E order \in Orders(DOMAIN authors[a]) :
             aresult' = [op |-> "in", author |-> a, item |-> item,
                         out |-> contains(authors[a], item, order)]
    /\ UNCHANGED <<markup, thread, tresult, authors, calls, now, text, sresult,
                   page, variant>>

\* author.posts; the dict lists its values in an order of its own.
AuthorPosts ==
    /\ \E a \in DOMAIN authors :
          \E order \in Orders(DOMAIN authors[a]) :
             aresult' = [op |-> "posts", author |-> a, order |-> order,
                         out |-> Ok(Author_posts(authors[a], order))]
    /\ UNCHANGED <<markup, thread, tresult, authors, calls, now, text, sresult,
                   page, variant>>

\* author.post_numbers; the dict lists its keys in an order of its own.
AuthorPostNumbers ==
    /\ \E a \in DOMAIN authors :
          \E order \in Orders(DOMAIN authors[a]) :
             aresult' = [op |-> "post_numbers", author |-> a,
                         order |-> order,
                         out |-> Ok(Author_post_numbers(authors[a],
                                                         order))]
    /\ UNCHANGED <<markup, thread, tresult, authors, calls, now, text, sresult,
                   page, variant>>

SnopNext ==
    \/ PostConstruct
    \/ VbulletPostConstruct
    \/ AuthorAddPost
    \/ AuthorIsOp
    \/ AuthorContains
    \/ AuthorPosts
    \/ AuthorPostNumbers
    \/ PostGetCleanContent
    \/ SourceMutate

SnopInitState ==
    /\ markup = <<>>
    /\ thread = NoThread
    /\ tresult = NoResult
    /\ authors = EmptyDict
    /\ aresult = NoResult
    /\ calls = 0
    /\ now \in Clocks
    /\ text = <<>>
    /\ sresult = NoResult
    /\ page = InitialPage
    /\ variant \in {"snop", "vbullet"}

SpecSnop == SnopInitState /\ [][SnopNext]_vars

(***************************************************************************)
(* Thread: properties.                                                     *)
(***************************************************************************)
ThreadBuiltBy(op) == thread.built /\ tresult.op = op

\* C1: on a Thread of N >= 1 posts, get_post(0) and get_post(1) return the
\* first post, get_post(n) for 1 <= n <= N the n-th post, get_post(-n) for
\* 1 <= n <= N the n-th post from the end, and every other integer raises
\* IndexError.
C1_GetPostIndexing ==
    ThreadBuiltBy("get_post") =>
        LET posts == thread.posts
            N == Len(posts)
            n == tresult.arg
            out == tresult.out
        IN /\ N >= 1
           /\ n \in {0, 1} => IsOk(out) /\ out.val = posts[1]
           /\ (n >= 1 /\ n <= N) => IsOk(out) /\ out.val = posts[n]
           /\ (n <= -1 /\ n >= -N) => IsOk(out) /\ out.val = posts[N + 1 + n]
           /\ (n > N \/ n < -N) => out.err = "IndexError"

\* C1 witness: get_post(0) answered with a post on a thread of several
\* posts.
C1_Witness ==
    /\ ThreadBuiltBy("get_post")
    /\ Len(thread.posts) >= 2
    /\ tresult.arg = 0
    /\ IsOk(tresult.out)

\* Position in the document of the first post the constructor's loop
\* filed under the name.
FirstFiled(t, name) ==
    CHOOSE i \in 1..Len(t.posts) :
        /\ t.posts[i].id \in Range(t.author_list[name])
        /\ \A j \in 1..(i - 1) : t.posts[j].id \notin Range(t.author_list[name])

\* C2: the ranking lists the authors in non-increasing post count, and
\* authors of equal count in the order in which they first appeared,
\* whatever order the dictionary yields its items in.
C2_RankingStable ==
    thread.built =>
        LET r == thread.author_ranks
            count(a) == Len(thread.author_list[a])
        IN \A i, j \in 1..Len(r) :
              i < j =>
                 /\ count(r[i]) >= count(r[j])
                 /\ count(r[i]) = count(r[j]) =>
                       FirstFiled(thread, r[i]) < FirstFiled(thread, r[j])

\* The posts of the thread whose username is the name, ignoring case, in
\* document order.
PostsOf(t, name) ==
    SelectSeq(t.posts, LAMBDA p : Lower(p.user) = Lower(name))

\* C4: find_posts_by_author(name) returns exactly the elements whose
\* username is name (ignoring case) in document order, and
\* find_post_numbers_by_author(name) exactly their identifiers, whatever
\* the identifiers of the thread are.
C4_FindByAuthorExact ==
    /\ (ThreadBuiltBy("find_posts_by_author") /\ tresult.arg # None) =>
          /\ IsOk(tresult.out)
          /\ tresult.out.val = PostsOf(thread, tresult.arg)
    /\ (ThreadBuiltBy("find_post_numbers_by_author") /\ tresult.arg # None) =>
          /\ IsOk(tresult.out)
          /\ tresult.out.val =
                [i \in 1..Len(PostsOf(thread, tresult.arg)) |->
                    PostsOf(thread, tresult.arg)[i].id]

\* C5: aggregating a page without post elements fails with a ParseError.
C5_EmptyThreadParseError ==
    (tresult.op = "Thread" /\ Len(markup) = 0) =>
        tresult.out.err = "ParseError"

\* C11: a page with a post element that has no username span is not
\* aggregated: the constructor fails with a ParseError and no Thread, hence
\* no author entry for such an element, comes to exist.
C11_MissingUsernameRejected ==
    (tresult.op = "Thread" /\ \E i \in 1..Len(markup) : markup[i][2] = NoUser) =>
        /\ tresult.out.err = "ParseError"
        /\ ~thread.built

\* C12: get_ranked_authors_list(excluded...) returns the authors of the
\* ranking whose name is none of the excluded names, compared without
\* regard to case, in the order of the ranking.
C12_RankedExcludesIgnoringCase ==
    ThreadBuiltBy("get_ranked_authors_list") =>
        /\ IsOk(tresult.out)
        /\ tresult.out.val =
              SelectSeq(thread.author_ranks,
                        LAMBDA a : \A x \in tresult.arg : Lower(x) # Lower(a))

\* The name the find methods use when none is given: the author of the
\* first post of the thread.
AuthorOfFirst(t) ==
    IF t.posts[1].user # NoUser THEN t.posts[1].user ELSE NullAuthor(1)

\* The identifiers filed under a name, ignoring case; none for a name the
\* thread does not know.
NumbersUnder(t, name) ==
    IF Lower(name) \in DOMAIN t.author_list THEN t.author_list[Lower(name)]
    ELSE <<>>

FindOps == {"find_post_numbers_by_author", "find_posts_by_author"}

\* What C13 says of the outcome of one call of a find method.
C13_Outcome ==
    (thread.built /\ tresult.op \in FindOps) =>
        LET name == IF tresult.arg = None THEN AuthorOfFirst(thread)
                    ELSE tresult.arg
            numbers == NumbersUnder(thread, name)
        IN /\ IsOk(tresult.out)
           /\ Len(tresult.out.val) = Len(numbers)
           /\ tresult.op = "find_post_numbers_by_author" =>
                 tresult.out.val = numbers
           /\ tresult.op = "find_posts_by_author" =>
                 \A i \in 1..Len(numbers) :
                    tresult.out.val[i] =
                       get_post(thread.posts, IntArg(numbers[i])).val

\* C13: the find methods never raise, whatever the name: a name the thread
\* does not know gives the empty list, no name stands for the author of
\* the first post, case is ignored, and the list returned is the caller's
\* own: whatever the caller does with it, the built thread stays as it is.
C13_FindNeverFails ==
    /\ []C13_Outcome
    /\ [][thread.built => thread' = thread]_vars

\* C13 witness: the caller has emptied the list of identifiers it got for
\* a name given in another case than the page has it, and the thread still
\* holds that author's identifiers.
C13_Witness ==
    /\ thread.built
    /\ tresult.op = "del result[:]"
    /\ tresult.arg = "Amy"
    /\ "amy" \in DOMAIN thread.author_list
    /\ thread.author_list["amy"] # <<>>

(***************************************************************************)
(* The splitting of a timestamp text on its own.                           *)
(***************************************************************************)
SplitAlphabet == {",", " ", "a"}

SnopSplitDatetime ==
    /\ variant = "snop"
    /\ sresult = NoResult
    /\ sresult' = [op |-> "snop", out |-> SnopSplit(text)]
    /\ UNCHANGED <<markup, thread, tresult, authors, aresult, calls, now, text,
                   page, variant>>

VbulletSplitDatetime ==
    /\ variant = "vbullet"
    /\ sresult = NoResult
    /\ \E python \in Pythons :
          sresult' = [op |-> "vbullet", python |-> python,
                      out |-> VbulletSplit(text, python)]
    /\ UNCHANGED <<markup, thread, tresult, authors, aresult, calls, now, text,
                   page, variant>>

SplitNext ==
    \/ SnopSplitDatetime
    \/ VbulletSplitDatetime

SplitInitState ==
    /\ markup = <<>>
    /\ thread = NoThread
    /\ tresult = NoResult
    /\ authors = EmptyDict
    /\ aresult = NoResult
    /\ calls = 0
    /\ now = 0
    /\ text \in UpTo(SplitAlphabet, MaxLen)
    /\ sresult = NoResult
    /\ page = <<>>
    /\ variant \in {"snop", "vbullet"}

SpecSplit == SplitInitState /\ [][SplitNext]_vars

(***************************************************************************)
(* snop: properties.                                                       *)
(***************************************************************************)
\* The places of s where ", " stands.
SeparatorsOf(s) == {i \in 1..(Len(s) - 1) : s[i] = "," /\ s[i + 1] = " "}

Max(S) == CHOOSE x \in S : \A y \in S : y <= x

\* The text before and the text after the last ", " of s.
BeforeLast(s) == SubSeq(s, 1, Max(SeparatorsOf(s)) - 1)

AfterLast(s) == SubSeq(s, Max(SeparatorsOf(s)) + 2, Len(s))

\* A Post call that got as far as the timestamp: the element has a
\* username, a numeric id, a content without spoiler or bbcode container,
\* and a datetime div.
ReachedTimestamp ==
    /\ aresult.op = "Post"
    /\ aresult.tag.user # NoUser
    /\ aresult.tag.numeric
    /\ \A i \in 1..Len(aresult.content) :
          ~IsSpoiler(aresult.content[i]) /\ ~IsBBCode(aresult.content[i])
    /\ aresult.tag.datetime # NoText

\* C3: adding a post to an Author that holds a post of that number leaves
\* the earlier post in place: no stored post is ever replaced.
C3_NoOverwrite ==
    [][\A a \in DOMAIN authors : \A n \in DOMAIN authors[a] :
          /\ n \in DOMAIN authors'[a]
          /\ authors'[a][n] = authors[a][n]]_vars

\* C6: is_op evaluates to a boolean without raising, true exactly when a
\* post of number 1 is in the author's posts.
C6_IsOpBoolean ==
    aresult.op = "is_op" =>
        /\ IsOk(aresult.out)
        /\ aresult.out.val = (1 \in DOMAIN authors[aresult.author])

\* The texts "N <unit>(s) ago" of the page: N, and the unit in minutes
\* (a year is 365 or 366 days).
RelativeTexts ==
    { <<Text_minutes, 5, 1, 1>>,
      <<Text_hours, 2, MinutesPerHour, MinutesPerHour>>,
      <<Text_days, 1, MinutesPerDay, MinutesPerDay>>,
      <<Text_weeks, 3, MinutesPerWeek, MinutesPerWeek>>,
      <<Text_years, 1, 365 * MinutesPerDay, 366 * MinutesPerDay>> }

\* C7: "N <unit>(s) ago" resolves to now minus N of the unit, date and
\* time both present, for each of minute, hour, day, week and year,
\* whatever formats are passed.
C7_RelativeResolves ==
    ReachedTimestamp =>
        \A r \in RelativeTexts :
            aresult.tag.datetime = r[1] =>
                /\ IsOk(aresult.out)
                /\ \E unit \in r[3]..r[4] :
                      /\ aresult.out.val.date = Some(DateOf(now - r[2] * unit))
                      /\ aresult.out.val.time = Some(TimeOf(now - r[2] * unit))

\* C8: for a text with at least one ", ", snop's split takes the date
\* portion to be everything before the last ", " and the time portion
\* everything after it.
C8_SplitAtLast ==
    (sresult.op = "snop" /\ SeparatorsOf(text) # {}) =>
        /\ sresult.out.date_string = BeforeLast(text)
        /\ sresult.out.time_string = AfterLast(text)

\* C8 witness: a text split whose date portion itself holds a ", ".
C8_Witness ==
    /\ sresult.op = "snop"
    /\ Cardinality(SeparatorsOf(text)) >= 2
    /\ SeparatorsOf(sresult.out.date_string) # {}
    /\ sresult.out.time_string # <<>>

\* A Post call on the absolute branch that got as far as the timestamp.
ReachedAbsolute ==
    /\ ReachedTimestamp
    /\ ~Contains(aresult.tag.datetime, WORD_ago)

\* The portions of a text: the text before the last ", " for the date,
\* the text after it for the time (the whole text when it has no ", ").
PortionsOf(s) ==
    IF SeparatorsOf(s) = {} THEN [date |-> <<>>, time |-> s]
    ELSE [date |-> BeforeLast(s), time |-> AfterLast(s)]

DatePortion == PortionsOf(aresult.tag.datetime).date

TimePortion == PortionsOf(aresult.tag.datetime).time

\* The date format is consulted: the date portion names neither today
\* nor yesterday, and a format was passed.
DateFormatConsulted ==
    /\ ~Contains(DatePortion, WORD_today)
    /\ ~Contains(DatePortion, WORD_yesterday)
    /\ aresult.date_format # NoValue

DateMismatch ==
    DateFormatConsulted /\ ~IsOk(strptime(DatePortion, aresult.date_format[1]))

TimeMismatch ==
    /\ aresult.time_format # NoValue
    /\ ~IsOk(strptime(TimePortion, aresult.time_format[1]))

\* The date the claim gives: a function of the date portion, the date
\* format and the clock alone.
ClaimedDate ==
    IF Contains(DatePortion, WORD_today) THEN Some(DateOf(now))
    ELSE IF Contains(DatePortion, WORD_yesterday) THEN Some(DateOf(now) - 1)
    ELSE IF aresult.date_format # NoValue
         THEN Some(DateOf(strptime(DatePortion, aresult.date_format[1]).val))
    ELSE NoValue

\* The time the claim gives: a function of the time portion and the time
\* format alone.
ClaimedTime ==
    IF aresult.time_format # NoValue
    THEN Some(TimeOf(strptime(TimePortion, aresult.time_format[1]).val))
    ELSE NoValue

\* C9: on the absolute branch the date and the time resolve independently:
\* the date is today for "today", the day before for "yesterday", else
\* the parse under the date format, else None; the time is the parse
\* under the time format, else None.  The date does not depend on the
\* time format nor the time on the date format; the only other outcome
\* is the error of a format that does not match.
C9_IndependentResolution ==
    ReachedAbsolute =>
        /\ IsOk(aresult.out) =>
              /\ aresult.out.val.date = ClaimedDate
              /\ aresult.out.val.time = ClaimedTime
        /\ IsOk(aresult.out) <=> ~DateMismatch /\ ~TimeMismatch

\* C9 witness: "today, 10:15" with a time format and no date format gave
\* both, and some post has a date and no time.
C9_Witness ==
    /\ ReachedAbsolute
    /\ aresult.tag.datetime = Text_today
    /\ aresult.date_format = NoValue
    /\ aresult.time_format = Some(<<"%H", ":", "%M">>)
    /\ IsOk(aresult.out)
    /\ aresult.out.val.date = Some(DateOf(now))
    /\ aresult.out.val.time = Some(615)
    /\ \E a \in DOMAIN authors : \E p \in DictValues(authors[a]) :
          p.date # NoValue /\ p.time = NoValue

\* A format was passed that does not match the portion of the text it is
\* for.
SuppliedFormatMismatch ==
    LET parts == PortionsOf(aresult.tag.datetime)
    IN \/ /\ aresult.date_format # NoValue
          /\ ~IsOk(strptime(parts.date, aresult.date_format[1]))
       \/ /\ aresult.time_format # NoValue
          /\ ~IsOk(strptime(parts.time, aresult.time_format[1]))

\* C10 as stated: whenever a date or time format is passed that does not
\* match its portion of the text, construction fails with an error that
\* reports the format and the text; no Post is produced.
C10_AnyMismatchRaises ==
    (ReachedTimestamp /\ SuppliedFormatMismatch) =>
        /\ IsFormatError(aresult.out)
        /\ Some(aresult.out.val.format) \in
              {aresult.date_format, aresult.time_format}

\* C10 as amended: on the absolute branch a format that is consulted and
\* does not match makes construction fail with a ValueError reporting
\* that format and the text it was tried on, the date before the time;
\* where no format is consulted (the friendly branch; the date format for
\* "today" and "yesterday") a format that does not match raises nothing.
C10_ConsultedMismatchRaises ==
    /\ (ReachedAbsolute /\ DateMismatch) =>
          aresult.out = RaiseFormat(aresult.date_format[1], DatePortion)
    /\ (ReachedAbsolute /\ ~DateMismatch /\ TimeMismatch) =>
          aresult.out = RaiseFormat(aresult.time_format[1], TimePortion)
    /\ (ReachedAbsolute /\ ~DateMismatch /\ ~TimeMismatch) =>
          IsOk(aresult.out)
    /\ (ReachedTimestamp /\ ~ReachedAbsolute) =>
          ~IsFormatError(aresult.out)

\* C10 witness: a time format that does not match was reported, after
\* the date had resolved.
C10_Witness ==
    /\ ReachedAbsolute
    /\ ~DateMismatch
    /\ TimeMismatch
    /\ aresult.out.err = "ValueError"
    /\ aresult.out.val.format = <<"%M">>
    /\ aresult.out.val.string = <<"1", "0", ":", "1", "5">>

\* C14: "item in author", for a post number or a Post, gives a boolean
\* and raises nothing; it is true exactly when the number is a stored
\* post's number, or the Post is stored.
C14_ContainsBoolean ==
    aresult.op = "in" =>
        LET self == authors[aresult.author]
            item == aresult.item
        IN /\ IsOk(aresult.out)
           /\ aresult.out.val =
                 IF item.isPost THEN item.post \in DictValues(self)
                 ELSE item.n \in DOMAIN self

\* What remains of a child when all markup but <b> and <i> is removed.
KeepBoldItalic(node) ==
    IF node.kind = "element" /\ node.name \in {"b", "i"} THEN StrNode(node)
    ELSE get_text(StrNode(node))

RECURSIVE KeepBoldItalicAll(_)
KeepBoldItalicAll(nodes) ==
    IF nodes = <<>> THEN <<>>
    ELSE KeepBoldItalic(Head(nodes)) \o KeepBoldItalicAll(Tail(nodes))

\* C16: cleaning that ignores b and i keeps every <b>, </b>, <i>, </i> of
\* the raw content where it was, removes all other markup, and leaves all
\* text as it was: a <b> or <i> marker is in the output only where the raw
\* content has that tag.
C16_BoldItalicKept ==
    (thread.built /\ tresult.op = "get_post_content" /\ IsOk(tresult.out)) =>
        tresult.out.val = KeepBoldItalicAll(page[1])

\* C18: for every text with a ", ", vbullet's split gives what snop's
\* gives: the text before the last ", " as the date string and the text
\* after it as the time string, both strings in their natural order.
C18_VbulletSplitsAsSnop ==
    (sresult.op = "vbullet" /\ SeparatorsOf(text) # {}) =>
        /\ IsOk(sresult.out)
        /\ sresult.out.val = SnopSplit(text)
        /\ sresult.out.val.date_string = BeforeLast(text)
        /\ sresult.out.val.time_string = AfterLast(text)

\* A step that makes no new Post: a get_clean_content call, an edit of the
\* document, or a construction that fails.
NoPostMade ==
    \/ aresult'.op \in {"get_clean_content", "edit"}
    \/ aresult'.op \in {"Post", "vbullet.Post"} /\ ~IsOk(aresult'.out)

\* C15: the raw content of a Post, html and tag, is what it was when the
\* Post was made, whatever get_clean_content calls, edits of the document
\* or rewriting by a constructor come after.
C15_RawContentFrozen ==
    [][NoPostMade =>
          \A a \in DOMAIN authors : \A n \in DOMAIN authors[a] :
             /\ a \in DOMAIN authors'
             /\ n \in DOMAIN authors'[a]
             /\ Post_html(authors'[a][n], page') =
                   Post_html(authors[a][n], page)
             /\ Post_tag(authors'[a][n], page') =
                   Post_tag(authors[a][n], page)]_vars

\* What cleaning leaves of a content: the text of its children, with the
\* spoilers gone or replaced by their inner text.
CleanText(content, spoilers) ==
    get_text(StrNodes(CleanSpoilers(content, spoilers)))

\* C17: get_clean_content returns the cleaned text of the post: without
\* the spoiler blocks and their inner text when spoilers is True, with the
\* inner text in the place of each block when spoilers is False.
C17_CleanContentReturned ==
    aresult.op = "get_clean_content" =>
        /\ IsOk(aresult.out)
        /\ aresult.out.val =
              Some(CleanText(Post_tag(authors[aresult.author][aresult.number],
                                      page),
                             aresult.spoilers))

\* The post numbers a step adds to the Author of a name: that of the Post
\* handed to add_post, or of the Post a constructor made for that Author.
Added(a) ==
    IF aresult'.op = "add_post" /\ aresult'.author = a
    THEN {aresult'.post.number}
    ELSE IF /\ aresult'.op \in {"Post", "vbullet.Post"}
            /\ IsOk(aresult'.out)
            /\ Lower(aresult'.tag.user) = a
    THEN {aresult'.out.val.number}
    ELSE {}

\* The post numbers an Author holds before a step; none before it exists.
NumbersBefore(a) == IF a \in DOMAIN authors THEN DOMAIN authors[a] ELSE {}

\* What the read accessors of an Author return, in the state they are
\* read in.
C19_Accessors ==
    /\ aresult.op = "post_numbers" =>
          LET out == aresult.out.val
          IN /\ IsOk(aresult.out)
             /\ \A i \in 1..(Len(out) - 1) : out[i] < out[i + 1]
             /\ Range(out) = DOMAIN authors[aresult.author]
    /\ aresult.op = "posts" =>
          LET out == aresult.out.val
          IN /\ IsOk(aresult.out)
             /\ \A order \in Orders(DOMAIN authors[aresult.author]) :
                   LET numbers == Author_post_numbers(authors[aresult.author],
                                                      order)
                   IN /\ Len(out) = Len(numbers)
                      /\ \A i \in 1..Len(out) : out[i].number = numbers[i]

\* C19: whatever the order of the add_post calls, post_numbers is strictly
\* ascending and is the set of the numbers added, posts has the same
\* length with posts[i].number = post_numbers[i], and the numbers an
\* Author holds only grow, by the numbers added.
C19_SortedAppendOnly ==
    /\ []C19_Accessors
    /\ [][\A a \in DOMAIN authors \cup DOMAIN authors' :
            /\ a \in DOMAIN authors'
            /\ DOMAIN authors'[a] = NumbersBefore(a) \cup Added(a)
            /\ Cardinality(DOMAIN authors'[a]) >=
                  Cardinality(NumbersBefore(a))]_vars

\* posts read from an Author of two posts whose dict lists the later one
\* first, the later one added first.
C19_Witness ==
    /\ aresult.op = "posts"
    /\ Len(aresult.order) >= 2
    /\ aresult.order[1] > aresult.order[2]
    /\ aresult.out.val[1].number < aresult.out.val[2].number
    /\ aresult.out.val[1].tag > aresult.out.val[2].tag

\* A construction that failed.
ConstructionFailed ==
    aresult'.op \in {"Post", "vbullet.Post"} /\ ~IsOk(aresult'.out)

\* C20: a Post is registered with its Author as the last step of a
\* construction that succeeds: a construction that fails leaves the posts
\* of every Author as they were (an Author made for the name holds none),
\* and no Author holds a Post whose date or time was never assigned.
C20_RegisteredLast ==
    /\ [](\A p \in HeldPosts : p.date # Unassigned /\ p.time # Unassigned)
    /\ [][ConstructionFailed =>
            /\ DOMAIN authors \subseteq DOMAIN authors'
            /\ \A a \in DOMAIN authors' :
                  authors'[a] = IF a \in DOMAIN authors THEN authors[a]
                                ELSE EmptyDict]_vars

\* A construction that failed on its date format, for an Author who holds
\* a Post already.
C20_Witness ==
    /\ ReachedAbsolute
    /\ DateMismatch
    /\ IsFormatError(aresult.out)
    /\ Lower(aresult.tag.user) \in DOMAIN authors
    /\ authors[Lower(aresult.tag.user)] # EmptyDict

====
